---- MODULE Spec2Model ----
(***************************************************************************)
(* Reno congestion controller of quicly (lib/cc-reno.c).                   *)
(*                                                                         *)
(* One quicly_cc_t instance, driven by the loss-detection driver through   *)
(* the callbacks of quicly_cc_type_reno.  The instance is the record `cc`; *)
(* its fields carry the names of the C fields (state.reno.jumpstart.x is   *)
(* flattened to x).  `state` is a union: state.pico.stash occupies the     *)
(* storage of state.reno.stash (field stash).  The ECN fields touched by   *)
(* quicly_cc__update_ecn_episodes (quicly/cc.h) are not part of the record.*)
(*                                                                         *)
(* uint32_t arithmetic is modular.  TLC's integers are 32-bit signed, so   *)
(* the word is modelled with WordBits bits instead of 32: every uint32_t   *)
(* value lives in 0..UINT32_MAX = 2^WordBits - 1 and every sum and product *)
(* is reduced modulo 2^WordBits.  Packet numbers (uint64_t) range over     *)
(* 0..MaxPn and UINT64_MAX is the value above all of them.                 *)
(*                                                                         *)
(* The driver is the loss-detection module: it numbers the packets it      *)
(* sends, and reports each packet once, as acknowledged or as lost.  A     *)
(* failed assert() stops the process (aborted); a build with NDEBUG runs   *)
(* on, and both builds are behaviours of Spec.                             *)
(*                                                                         *)
(* Spec is the controller under every interleaving of its callbacks.       *)
(* SpecRestore starts from the states in which a loss takes the jumpstart  *)
(* restore, one for every jumpstart.bytes_acked up to MaxBytesAcked.       *)
(* SpecCalc initialises the instance for every initcwnd_packets up to      *)
(* MaxPackets and a range of max_udp_payload_size.                         *)
(***************************************************************************)
EXTENDS Integers, Naturals, Sequences, FiniteSets, TLC

(* ------------------------------ bounds -------------------------------- *)

\* number of bits of the modelled uint32_t word
WordBits == 16

\* packets the driver sends: packet numbers 0 .. MaxPn - 1
MaxPn == 3

\* calls of enter_jumpstart explored
MaxJumpstarts == 2

\* windows of acknowledged bytes followed through congestion avoidance
MaxWindows == 2

\* largest jumpstart.bytes_acked from which the restore is taken
MaxBytesAcked == 3200

\* largest initcwnd_packets for which the initial window is computed
MaxPackets == 50

(* ----------------------------- constants ------------------------------ *)

UINT32_MAX == 2 ^ WordBits - 1

UINT64_MAX == MaxPn + 1

\* the largest uint16_t, the type of the max_udp_payload_size of
\* quicly_cc_calc_initial_cwnd
UINT16_MAX == 65535

\* quicly/constants.h
QUICLY_MIN_CWND == 2

\* quicly/cc.h: QUICLY_RENO_BETA is the double 0.7 = BetaNum / BetaDen
BetaNum == 7

BetaDen == 10

\* static const uint32_t mtu_max in quicly_cc_calc_initial_cwnd
mtu_max == 1472

\* quicly/pacer.h: the uint8_t encoding of a multiplier, here kept in tenths;
\* only equality of encodings is used by the controller
QUICLY_PACER_CALC_MULTIPLIER(tenths) == tenths

PACER_X1 == QUICLY_PACER_CALC_MULTIPLIER(10)

PACER_X2 == QUICLY_PACER_CALC_MULTIPLIER(20)

PACER_X1_2 == QUICLY_PACER_CALC_MULTIPLIER(12)

(* ------------------------ machine arithmetic -------------------------- *)

\* conversion of a non-negative integer to uint32_t
Wrap32(x) == x % (UINT32_MAX + 1)

Add32(a, b) == Wrap32(a + b)

Mul32(a, b) == Wrap32(a * b)

RECURSIVE FloorPow2(_, _)
\* largest power of two p * 2^k that is <= n (n >= p >= 1)
FloorPow2(n, p) == IF 2 * p <= n THEN FloorPow2(n, 2 * p) ELSE p

\* uint32_t x; x *= 0.7: the product is computed in IEEE-754 double and
\* truncated.  The double nearest to 0.7 is 0.7 - 0.4 * 2^-53, so the exact
\* product of a multiple of ten, 7x/10 - 0.4x * 2^-53, rounds to the double
\* below the integer 7x/10 when 0.4x exceeds half the spacing of doubles at
\* 7x/10, and the truncation then loses one.
MulBeta(x) ==
    LET n == (BetaNum * x) \div BetaDen
    IN  IF x > 0 /\ x % BetaDen = 0 /\ 2 * x > 5 * FloorPow2(n, 1)
        THEN n - 1
        ELSE n

\* a faulty line 88 that does not divide
NoCompensation(x) == {x}

\* (uint32_t)(x / 0.7): the quotient in double, truncated; the set of values
\* the conversion can produce.  A quotient above UINT32_MAX is out of the
\* range of uint32_t and the conversion is undefined: builds reduce it
\* modulo 2^32 (x86-64) or saturate it (AArch64).
DivBeta(x) ==
    LET q == (BetaDen * x) \div BetaNum
    IN  IF q <= UINT32_MAX THEN {q} ELSE {Wrap32(q), UINT32_MAX}

Max(a, b) == IF a >= b THEN a ELSE b

(* ------------------------------- state -------------------------------- *)

VARIABLES
    cc,                     \* the quicly_cc_t instance
    initcwnd_packets,       \* of the context: the max_packets of the initial window
    max_udp_payload_size,   \* of the path: the argument of every callback
    next_pn,                \* the driver's next unused packet number
    unacked,                \* packets sent and not yet reported acknowledged or lost
    last,                   \* the last call that can change the instance, and its branch
    jumpstarts,             \* calls of enter_jumpstart made so far
    aborted,                \* an assert() of the controller has failed
    epoch                   \* the window at which congestion avoidance started with
                            \* an empty stash, and the bytes acknowledged since

vars == <<cc, initcwnd_packets, max_udp_payload_size, next_pn, unacked, last, jumpstarts, aborted, epoch>>

(* -------------------------- initial window ---------------------------- *)

quicly_cc_calc_initial_cwnd(max_packets, mtu) ==
    LET packets == IF max_packets < QUICLY_MIN_CWND THEN QUICLY_MIN_CWND ELSE max_packets
        payload == IF mtu > mtu_max THEN mtu_max ELSE mtu
    IN  Mul32(packets, payload)

(* ------------------------------- reset -------------------------------- *)

reno_reset(initcwnd) ==
    [type |-> "reno",
     cwnd |-> initcwnd,
     cwnd_initial |-> initcwnd,
     cwnd_maximum |-> initcwnd,
     ssthresh |-> UINT32_MAX,
     cwnd_minimum |-> UINT32_MAX,
     cwnd_exiting_slow_start |-> 0,
     recovery_end |-> 0,
     pacer_multiplier |-> PACER_X2,
     num_loss_episodes |-> 0,
     stash |-> 0,
     enter_pn |-> UINT64_MAX,
     exit_pn |-> 0,
     bytes_acked |-> 0]

reno_init(initcwnd) == reno_reset(initcwnd)

(* ------------------------------ on_acked ------------------------------ *)

Sub32(a, b) == (a + (UINT32_MAX + 1) - b) % (UINT32_MAX + 1)

\* line 35: the acknowledged packet was sent before the recovery episode ended
InRecovery(c, largest_acked) == largest_acked < c.recovery_end

\* lines 36 and 84: the packet was sent before the jumpstart exit boundary
BeforeJumpstartExit(c, pn) == pn < c.exit_pn

\* line 42
InJumpstartInterval(c, largest_acked) ==
    c.enter_pn <= largest_acked /\ largest_acked < c.exit_pn

\* line 46
JumpstartExitTrigger(c, largest_acked) ==
    c.pacer_multiplier = PACER_X1 /\ c.enter_pn <= largest_acked

\* faulty lines 35-39 that credit every acknowledgement in recovery
CreditAlways(c, bytes, largest_acked) == [c EXCEPT !.cwnd = Add32(@, bytes)]

\* lines 35-39
AckedInRecovery(c, bytes, largest_acked) ==
    IF BeforeJumpstartExit(c, largest_acked)
    THEN [c EXCEPT !.cwnd = Add32(@, bytes)]
    ELSE c

\* lines 42-43
JumpstartAccount(c, bytes, largest_acked) ==
    IF InJumpstartInterval(c, largest_acked)
    THEN [c EXCEPT !.bytes_acked = Add32(@, bytes)]
    ELSE c

\* lines 46-51 (the assertion of line 47 is AckedAssertFails)
JumpstartExit(c, largest_acked, inflight, np) ==
    IF JumpstartExitTrigger(c, largest_acked)
    THEN [c EXCEPT !.cwnd = inflight,
                   !.exit_pn = np,
                   !.pacer_multiplier = PACER_X2]
    ELSE c

\* lines 54-59
SlowStart(c, bytes) ==
    LET w == Add32(c.cwnd, bytes)
    IN  [c EXCEPT !.cwnd = w,
                  !.cwnd_maximum = IF @ < w THEN w ELSE @]

\* faulty lines 61-69 that only stash the bytes
StashOnly(c, bytes, mtu) == [c EXCEPT !.stash = Add32(@, bytes)]

\* faulty lines 61-69 that grow the window and keep the whole stash
KeepWholeStash(c, bytes, mtu) ==
    LET stash == Add32(c.stash, bytes)
    IN  [c EXCEPT !.stash = stash,
                  !.cwnd = IF stash < @ THEN @ ELSE Add32(@, mtu)]

\* lines 61-69
CongestionAvoidance(c, bytes, mtu) ==
    LET stash == Add32(c.stash, bytes)
        count == stash \div c.cwnd
        w     == Add32(c.cwnd, Mul32(count, mtu))
    IN  IF stash < c.cwnd
        THEN [c EXCEPT !.stash = stash]
        ELSE [c EXCEPT !.stash = Sub32(stash, Mul32(count, c.cwnd)),
                       !.cwnd = w,
                       !.cwnd_maximum = IF @ < w THEN w ELSE @]

\* line 54: the window is below the slow-start threshold
InSlowStart(c) == c.cwnd < c.ssthresh

reno_on_acked(c, bytes, largest_acked, inflight, np, mtu) ==
    IF InRecovery(c, largest_acked)
    THEN AckedInRecovery(c, bytes, largest_acked)
    ELSE LET c1 == JumpstartAccount(c, bytes, largest_acked)
             c2 == JumpstartExit(c1, largest_acked, inflight, np)
         IN  IF InSlowStart(c2)
             THEN SlowStart(c2, bytes)
             ELSE CongestionAvoidance(c2, bytes, mtu)

\* line 47: assert(cc->cwnd < cc->ssthresh) is reached and fails
AckedAssertFails(c, largest_acked) ==
    /\ ~InRecovery(c, largest_acked)
    /\ JumpstartExitTrigger(c, largest_acked)
    /\ ~(c.cwnd < c.ssthresh)

\* the branch of reno_on_acked a call takes
AckedPath(c, largest_acked, inflight) ==
    IF InRecovery(c, largest_acked)
    THEN IF BeforeJumpstartExit(c, largest_acked) THEN "recovery_credit" ELSE "recovery_noop"
    ELSE IF (IF JumpstartExitTrigger(c, largest_acked) THEN inflight ELSE c.cwnd) < c.ssthresh
         THEN "slow_start"
         ELSE "avoidance"

(* ------------------------------ on_lost ------------------------------- *)

\* a faulty line 78 that takes every loss for a new episode
EveryLossNewEpisode(c, lost_pn) == FALSE

\* line 78
LossInRecovery(c, lost_pn) == lost_pn < c.recovery_end

\* a faulty line 84 that restores for every loss in slow start
RestoreWheneverInSlowStart(c, lost_pn) == c.ssthresh = UINT32_MAX

\* line 84
JumpstartRestore(c, lost_pn) ==
    c.ssthresh = UINT32_MAX /\ BeforeJumpstartExit(c, lost_pn)

\* a faulty line 97 without the floor
NoMinCwnd(mtu) == 0

\* line 97: QUICLY_MIN_CWND * max_udp_payload_size
MinCwnd(mtu) == Mul32(QUICLY_MIN_CWND, mtu)

\* faulty lines 91-102 that record the last reduced window as the minimum
LastWindowAsMinimum(c, w, mtu) ==
    LET reduced == MulBeta(w)
        floored == IF reduced < MinCwnd(mtu) THEN MinCwnd(mtu) ELSE reduced
    IN  [c EXCEPT !.num_loss_episodes = Add32(@, 1),
                  !.cwnd_exiting_slow_start = IF @ = 0 THEN w ELSE @,
                  !.cwnd = floored,
                  !.ssthresh = floored,
                  !.cwnd_minimum = floored]

\* lines 91-102, from the window w left by lines 84-89
ReduceWindow(c, w, mtu) ==
    LET reduced == MulBeta(w)
        floored == IF reduced < MinCwnd(mtu) THEN MinCwnd(mtu) ELSE reduced
    IN  [c EXCEPT !.num_loss_episodes = Add32(@, 1),
                  !.cwnd_exiting_slow_start = IF @ = 0 THEN w ELSE @,
                  !.cwnd = floored,
                  !.ssthresh = floored,
                  !.cwnd_minimum = IF @ > floored THEN floored ELSE @]

\* lines 78-102: the states the call can leave (one, unless the conversion of
\* line 88 is out of range)
quicly_cc_reno_on_lost(c, bytes, lost_pn, np, mtu) ==
    IF LossInRecovery(c, lost_pn)
    THEN {c}
    ELSE LET c1 == [c EXCEPT !.recovery_end = np,
                             !.pacer_multiplier = PACER_X1_2]
         IN  IF JumpstartRestore(c1, lost_pn)
             THEN {ReduceWindow(c1, w, mtu) : w \in DivBeta(c1.bytes_acked)}
             ELSE {ReduceWindow(c1, c1.cwnd, mtu)}

\* line 85: assert(cc->cwnd < cc->ssthresh) is reached and fails
LostAssertFails(c, lost_pn) ==
    /\ ~LossInRecovery(c, lost_pn)
    /\ JumpstartRestore(c, lost_pn)
    /\ ~(c.cwnd < c.ssthresh)

(* -------------------------- enter_jumpstart --------------------------- *)

\* line 117
JumpstartTooSmall(c, jump_cwnd) == Mul32(c.cwnd, 2) >= jump_cwnd

reno_enter_jumpstart(c, jump_cwnd, np) ==
    IF JumpstartTooSmall(c, jump_cwnd)
    THEN c
    ELSE [c EXCEPT !.enter_pn = np,
                   !.cwnd = jump_cwnd,
                   !.pacer_multiplier = PACER_X1]

(* ------------------------------ on_switch ----------------------------- *)

\* line 144: cc->state.pico.stash, a member of the union `state`
PicoStash(c) == c.stash

\* a faulty on_switch that takes over the instance of any variant
RetagAnything(c) == <<1, [c EXCEPT !.type = "reno"]>>

\* a faulty on_switch that resets whatever instance it is given
AlwaysReset(c) == <<1, reno_reset(c.cwnd_initial)>>

\* a faulty on_switch that reuses the state of every cubic instance
CubicKeptAsIs(c) ==
    CASE c.type = "reno"  -> <<1, c>>
      [] c.type = "pico"  -> <<1, [c EXCEPT !.type = "reno", !.stash = PicoStash(c)]>>
      [] c.type = "cubic" -> <<1, [c EXCEPT !.type = "reno"]>>
      [] OTHER            -> <<0, c>>

\* lines 138-157: <<the return value, the state left>>
reno_on_switch(c) ==
    CASE c.type = "reno"  -> <<1, c>>
      [] c.type = "pico"  -> <<1, [c EXCEPT !.type = "reno", !.stash = PicoStash(c)]>>
      [] c.type = "cubic" -> IF c.cwnd_exiting_slow_start = 0
                             THEN <<1, [c EXCEPT !.type = "reno"]>>
                             ELSE <<1, reno_reset(c.cwnd_initial)>>
      [] OTHER            -> <<0, c>>

(* ------------------------- the driver's inputs ------------------------ *)

\* initcwnd_packets of the context
InitPackets == {2}

\* max_udp_payload_size of the path
MtuChoices == {1472}

\* bytes reported by one call: half a packet, a packet, two packets
BytesChoices(mtu) == {mtu \div 2, mtu, 2 * mtu}

\* bytes in flight when bytes are acknowledged: those bytes alone, or a full
\* window
InflightChoices(bytes, cwnd) == {bytes, cwnd}

\* a target window of a few packets handed to enter_jumpstart
ModerateJump == 6000

\* target windows handed to enter_jumpstart: a moderate one, one with the top
\* bit set, and one a packet below UINT32_MAX
JumpChoices == {ModerateJump, 2 ^ (WordBits - 1), UINT32_MAX - mtu_max}

\* An instance that another variant has run, as the connection holds it
\* when it asks for the switch to Reno after its last packet: one still as
\* that variant's reset left it (the common fields as reno_reset sets them),
\* one on which pico has stashed half a packet, one that cubic has grown by a
\* packet in slow start, and one with which cubic has left slow start at the
\* first packet's loss.
ForeignInstances(initcwnd, mtu) ==
    LET fresh == reno_reset(initcwnd)
        left  == Max(MulBeta(initcwnd), MinCwnd(mtu))
        lossy == [fresh EXCEPT !.cwnd_exiting_slow_start = initcwnd,
                               !.cwnd = left,
                               !.ssthresh = left,
                               !.cwnd_minimum = left,
                               !.num_loss_episodes = 1,
                               !.recovery_end = 1,
                               !.pacer_multiplier = PACER_X1_2]
    IN  {[fresh EXCEPT !.type = "pico", !.stash = 736],
         [fresh EXCEPT !.type = "cubic",
                       !.cwnd = Add32(initcwnd, mtu),
                       !.cwnd_maximum = Add32(initcwnd, mtu)],
         [lossy EXCEPT !.type = "cubic"],
         [fresh EXCEPT !.type = "other"]}

(* ------------------------------ behaviour ----------------------------- *)

\* the record kept in `last`: the callback, the branch it took, whether the
\* jumpstart exit trigger fired in it, its bytes argument and its return value
Call(op, path, fired, bytes, ret) ==
    [op |-> op, path |-> path, fired |-> fired, bytes |-> bytes, ret |-> ret]

\* no window of congestion avoidance is being followed
NoEpoch == [cwnd |-> 0, bytes |-> 0]

\* `epoch` after a call of on_lost that leaves the instance n: a reduction
\* that leaves an empty stash starts a window of congestion avoidance
EpochAfterLoss(path, n) ==
    IF path = "in_recovery" THEN epoch
    ELSE IF n.stash = 0 THEN [cwnd |-> n.cwnd, bytes |-> 0]
    ELSE NoEpoch

\* `epoch` after a call of on_acked: the bytes are added while the calls take
\* the congestion-avoidance branch
EpochAfterAck(path, bytes) ==
    IF epoch # NoEpoch /\ path = "avoidance"
          /\ epoch.bytes + bytes <= MaxWindows * epoch.cwnd
    THEN [epoch EXCEPT !.bytes = @ + bytes]
    ELSE NoEpoch

\* the branch of quicly_cc_reno_on_lost a call takes
LostPath(c, lost_pn) ==
    IF LossInRecovery(c, lost_pn) THEN "in_recovery"
    ELSE IF JumpstartRestore(c, lost_pn) THEN "restore"
    ELSE "reduce"

Init ==
    \E max_packets \in InitPackets, mtu \in MtuChoices :
        /\ cc \in {reno_init(quicly_cc_calc_initial_cwnd(max_packets, mtu))}
                  \cup ForeignInstances(quicly_cc_calc_initial_cwnd(max_packets, mtu), mtu)
        /\ initcwnd_packets = max_packets
        /\ max_udp_payload_size = mtu
        /\ next_pn = IF cc.type = "reno" THEN 0 ELSE MaxPn
        /\ unacked = {}
        /\ last = Call("init", "", FALSE, 0, 1)
        /\ epoch = NoEpoch
        /\ jumpstarts = 0
        /\ aborted = FALSE

\* the callbacks of quicly_cc_type_reno are dispatched while it is the
\* instance's type and the process has not aborted
Dispatch == cc.type = "reno" /\ ~aborted

OnAcked ==
    /\ Dispatch
    /\ \E largest_acked \in unacked :
       \E bytes \in BytesChoices(max_udp_payload_size) :
       \E inflight \in InflightChoices(bytes, cc.cwnd) :
          LET n == reno_on_acked(cc, bytes, largest_acked, inflight, next_pn, max_udp_payload_size)
              path == AckedPath(cc, largest_acked, inflight)
              fired == ~InRecovery(cc, largest_acked) /\ JumpstartExitTrigger(cc, largest_acked)
          IN  /\ inflight >= bytes       \* line 30
              /\ unacked' = unacked \ {largest_acked}
              /\ last' = Call("on_acked", path, fired, bytes, 1)
              /\ \/ /\ AckedAssertFails(cc, largest_acked)   \* assert() compiled in
                    /\ aborted' = TRUE
                    /\ cc' = cc
                    /\ epoch' = epoch
                 \/ /\ aborted' = FALSE                       \* passes, or NDEBUG
                    /\ cc' = n
                    /\ epoch' = EpochAfterAck(path, bytes)
    /\ UNCHANGED <<initcwnd_packets, max_udp_payload_size, next_pn, jumpstarts>>

OnLost ==
    /\ Dispatch
    /\ \E lost_pn \in unacked :
       \E bytes \in BytesChoices(max_udp_payload_size) :
       \E n \in quicly_cc_reno_on_lost(cc, bytes, lost_pn, next_pn, max_udp_payload_size) :
          /\ unacked' = unacked \ {lost_pn}
          /\ last' = Call("on_lost", LostPath(cc, lost_pn), FALSE, bytes, 1)
          /\ \/ /\ LostAssertFails(cc, lost_pn)
                /\ aborted' = TRUE
                /\ cc' = cc
                /\ epoch' = epoch
             \/ /\ aborted' = FALSE
                /\ cc' = n
                /\ epoch' = EpochAfterLoss(LostPath(cc, lost_pn), n)
    /\ UNCHANGED <<initcwnd_packets, max_udp_payload_size, next_pn, jumpstarts>>

\* lines 105-108: nothing is done
OnPersistentCongestion ==
    /\ Dispatch
    /\ UNCHANGED vars

\* lines 110-113: nothing is done to the instance; the driver calls it for
\* the packet it has just sent, which takes the next packet number
OnSent ==
    /\ Dispatch
    /\ next_pn < MaxPn
    /\ next_pn' = next_pn + 1
    /\ unacked' = unacked \cup {next_pn}
    /\ UNCHANGED <<cc, initcwnd_packets, max_udp_payload_size, last, jumpstarts, aborted, epoch>>

EnterJumpstart ==
    /\ Dispatch
    /\ jumpstarts < MaxJumpstarts
    /\ jumpstarts' = jumpstarts + 1
    /\ \E jump_cwnd \in JumpChoices :
          /\ cc' = reno_enter_jumpstart(cc, jump_cwnd, next_pn)
          /\ last' = Call("enter_jumpstart",
                           IF JumpstartTooSmall(cc, jump_cwnd) THEN "noop" ELSE "jump",
                           FALSE, 0, 1)
          /\ epoch' = IF JumpstartTooSmall(cc, jump_cwnd) THEN epoch ELSE NoEpoch
    /\ UNCHANGED <<initcwnd_packets, max_udp_payload_size, next_pn, unacked, aborted>>

OnSwitch ==
    /\ ~aborted
    /\ LET r == reno_on_switch(cc)
       IN  /\ cc' = r[2]
           /\ last' = Call("on_switch", cc.type, FALSE, 0, r[1])
    /\ UNCHANGED <<initcwnd_packets, max_udp_payload_size, next_pn, unacked, jumpstarts, aborted, epoch>>

Next ==
    \/ OnAcked
    \/ OnLost
    \/ OnPersistentCongestion
    \/ OnSent
    \/ EnterJumpstart
    \/ OnSwitch

Spec == Init /\ [][Next]_vars

(* ------------------- the restore after a jumpstart -------------------- *)

\* The instance when a loss takes the restore of lines 84-89, for every
\* bytes_acked up to MaxBytesAcked: enter_jumpstart has been called before
\* the first packet; three packets are out; the acknowledgement of packet 0
\* has fired the exit trigger (so exit_pn is 3) and that of packet 1, of the
\* interval, has brought the bytes counted in bytes_acked.  Packet 2 is still
\* to be reported.
InitRestore ==
    \E max_packets \in InitPackets, mtu \in MtuChoices, acked \in 0 .. MaxBytesAcked :
        LET c0 == reno_init(quicly_cc_calc_initial_cwnd(max_packets, mtu))
            c1 == reno_enter_jumpstart(c0, ModerateJump, 0)
            c2 == reno_on_acked(c1, mtu, 0, c1.cwnd, 3, mtu)
            c3 == IF acked = 0 THEN c2 ELSE reno_on_acked(c2, acked, 1, c2.cwnd, 3, mtu)
        IN  /\ cc = c3
            /\ initcwnd_packets = max_packets
        /\ max_udp_payload_size = mtu
            /\ next_pn = 3
            /\ unacked = {2}
            /\ last = Call("on_acked", "slow_start", acked = 0, IF acked = 0 THEN mtu ELSE acked, 1)
            /\ jumpstarts = 1
            /\ aborted = FALSE
            /\ epoch = NoEpoch

NextRestore == OnLost

SpecRestore == InitRestore /\ [][NextRestore]_vars

(* ------------------------- the initial window ------------------------ *)

\* max_udp_payload_size for which the initial window is computed: around the
\* ceiling mtu_max, and the ends of the range
CalcMtuChoices == {0, 1, mtu_max - 1, mtu_max, mtu_max + 1, UINT16_MAX}

\* an instance initialised with the window of a configuration
InitCalc ==
    \E max_packets \in 0 .. MaxPackets, mtu \in CalcMtuChoices :
        /\ cc = reno_init(quicly_cc_calc_initial_cwnd(max_packets, mtu))
        /\ initcwnd_packets = max_packets
        /\ max_udp_payload_size = mtu
        /\ next_pn = 0
        /\ unacked = {}
        /\ last = Call("init", "", FALSE, 0, 1)
        /\ jumpstarts = 0
        /\ aborted = FALSE
        /\ epoch = NoEpoch

\* the instance is initialised again, for a connection of another
\* configuration
Reinit ==
    \E max_packets \in 0 .. MaxPackets, mtu \in CalcMtuChoices :
        /\ cc' = reno_init(quicly_cc_calc_initial_cwnd(max_packets, mtu))
        /\ initcwnd_packets' = max_packets
        /\ max_udp_payload_size' = mtu
        /\ UNCHANGED <<next_pn, unacked, last, jumpstarts, aborted, epoch>>

NextCalc == Reinit

SpecCalc == InitCalc /\ [][NextCalc]_vars

(* ------------------------------- claims ------------------------------- *)

\* the minimum window of the path
MinimumWindow == QUICLY_MIN_CWND * max_udp_payload_size

\* the packet a step of OnAcked or OnLost reports
ReportedPn == CHOOSE pn \in unacked : pn \notin unacked'

\* a step in which on_lost has run to its end
LostStep ==
    /\ unacked' # unacked
    /\ unacked' \subseteq unacked
    /\ last'.op = "on_lost"
    /\ ~aborted'

\* a step in which on_acked has run to its end
AckedStep ==
    /\ unacked' # unacked
    /\ unacked' \subseteq unacked
    /\ last'.op = "on_acked"
    /\ ~aborted'

\* C1: in every reachable state the window is at least the minimum window,
\* cwnd >= QUICLY_MIN_CWND * max_udp_payload_size.  The jumpstart exit adopts
\* the bytes in flight as the window without flooring it, so the statement
\* fails: TLC reaches a state that violates it.
C1_CwndAtLeastMinimum ==
    cc.type = "reno" => cc.cwnd >= MinimumWindow

\* C2: a call of on_lost for a packet sent before recovery_end leaves every
\* field of the instance as it was, whatever its bytes and next_pn.
C2_LossInsideEpisodeChangesNothing ==
    [][(LostStep /\ ReportedPn < cc.recovery_end) => cc' = cc]_vars

\* C2 witness: on_lost has returned from a loss inside the episode opened by an
\* earlier loss.
C2_Witness ==
    /\ last.op = "on_lost"
    /\ last.path = "in_recovery"
    /\ cc.num_loss_episodes = 1
    /\ ~aborted

\* C3 as stated: a call of on_lost for a packet sent at or after recovery_end
\* strictly decreases cwnd, leaves ssthresh equal to the new cwnd, adds one to
\* num_loss_episodes and sets recovery_end to next_pn.  A window already at
\* the floor is not decreased, so the statement fails.
C3_NewEpisodeStrictlyDecreases ==
    [][(LostStep /\ ReportedPn >= cc.recovery_end) =>
          /\ cc'.cwnd < cc.cwnd
          /\ cc'.ssthresh = cc'.cwnd
          /\ cc'.num_loss_episodes = cc.num_loss_episodes + 1
          /\ cc'.recovery_end = next_pn]_vars

\* C3 amended: a call of on_lost for a packet sent at or after recovery_end
\* leaves a window no smaller than the floor; outside the jumpstart restore it
\* leaves max(floor, trunc(0.7 * cwnd)), which is below the old window exactly
\* when that was above the floor; ssthresh equals the new cwnd,
\* num_loss_episodes grows by one and recovery_end is next_pn.
C3_NewEpisodeReduces ==
    [][(LostStep /\ ReportedPn >= cc.recovery_end) =>
          /\ cc'.cwnd >= MinimumWindow
          /\ ~(cc.ssthresh = UINT32_MAX /\ ReportedPn < cc.exit_pn) =>
                /\ cc'.cwnd = Max(MinimumWindow, MulBeta(cc.cwnd))
                /\ cc'.cwnd < cc.cwnd <=> cc.cwnd > MinimumWindow
          /\ cc'.ssthresh = cc'.cwnd
          /\ cc'.num_loss_episodes = cc.num_loss_episodes + 1
          /\ cc'.recovery_end = next_pn]_vars

\* C3 witness: on_lost has opened the first episode and left a window above
\* the floor and below the window it found.
C3_Witness ==
    /\ last.op = "on_lost"
    /\ last.path = "reduce"
    /\ ~aborted
    /\ cc.num_loss_episodes = 1
    /\ cc.cwnd > MinimumWindow
    /\ cc.cwnd < cc.cwnd_exiting_slow_start
    /\ cc.ssthresh = cc.cwnd

\* a call of on_acked in slow start, outside recovery, with no jumpstart
\* active: the pacer is not at the jumpstart rate and the packet is not of
\* the jumpstart interval
SlowStartAckedStep ==
    /\ AckedStep
    /\ cc.cwnd < cc.ssthresh
    /\ ReportedPn >= cc.recovery_end
    /\ cc.pacer_multiplier # PACER_X1
    /\ ~(cc.enter_pn <= ReportedPn /\ ReportedPn < cc.exit_pn)

\* C4: every such call of on_acked adds exactly its bytes to cwnd (so a
\* sequence of them adds exactly their total), leaves cwnd_maximum the
\* maximum of its old value and the new cwnd, and leaves stash alone.  The
\* sum of line 55 is a uint32_t: a window within bytes of UINT32_MAX wraps to
\* a small one, so the statement fails.
C4_SlowStartAddsBytes ==
    [][SlowStartAckedStep =>
          /\ cc'.cwnd = cc.cwnd + last'.bytes
          /\ cc'.cwnd_maximum = Max(cc.cwnd_maximum, cc'.cwnd)
          /\ cc'.stash = cc.stash]_vars

\* What the code does in the case of C4: every such call of on_acked adds its
\* bytes to cwnd modulo 2^32, which is exactly its bytes as long as the sum
\* does not exceed UINT32_MAX; cwnd_maximum is the maximum of its old value
\* and the new cwnd; stash is unchanged.
C4_SlowStartAddsBytesModulo ==
    [][SlowStartAckedStep =>
          /\ cc'.cwnd = (cc.cwnd + last'.bytes) % (UINT32_MAX + 1)
          /\ cc.cwnd + last'.bytes <= UINT32_MAX => cc'.cwnd = cc.cwnd + last'.bytes
          /\ cc'.cwnd_maximum = Max(cc.cwnd_maximum, cc'.cwnd)
          /\ cc'.stash = cc.stash]_vars

\* C5 as stated: when the calls of on_acked that follow a start of congestion
\* avoidance with an empty stash have acknowledged k times the window of
\* that start, cwnd has grown by k * max_udp_payload_size and stash is below
\* cwnd.  The second window is measured against the window already grown,
\* so the statement fails for k = 2 when the bytes come in several calls.
C5_WindowsGrowPackets ==
    \A k \in 1 .. MaxWindows :
        (epoch # NoEpoch /\ epoch.bytes = k * epoch.cwnd) =>
            /\ cc.cwnd = epoch.cwnd + k * max_udp_payload_size
            /\ cc.stash < cc.cwnd

\* C5 amended: when those calls have acknowledged exactly the window of the
\* start, in however many calls, cwnd has grown by exactly
\* max_udp_payload_size and stash is empty; and after each of those calls
\* stash is below cwnd.
C5_OneWindowGrowsOnePacket ==
    epoch # NoEpoch =>
        /\ cc.stash < cc.cwnd
        /\ epoch.bytes < epoch.cwnd => cc.cwnd = epoch.cwnd
        /\ epoch.bytes = epoch.cwnd =>
              /\ cc.cwnd = epoch.cwnd + max_udp_payload_size
              /\ cc.stash = 0

\* C5 witness: a window has been acknowledged in more than one call.
C5_Witness ==
    /\ epoch # NoEpoch
    /\ epoch.bytes = epoch.cwnd
    /\ last.op = "on_acked"
    /\ last.bytes < epoch.cwnd
    /\ cc.cwnd = epoch.cwnd + max_udp_payload_size

\* C6 as stated: between calls the stash of a Reno instance is below cwnd.
\* on_lost lowers cwnd and leaves stash alone, so the statement fails.
C6_StashBelowCwnd ==
    cc.type = "reno" => cc.stash < cc.cwnd

\* C6 amended: stash is below cwnd when on_acked returns from its
\* congestion-avoidance branch.
C6_StashBelowCwndAfterAvoidance ==
    (last.op = "on_acked" /\ last.path = "avoidance" /\ ~aborted) =>
        cc.stash < cc.cwnd

\* C6 witness: on_acked has grown the window in congestion avoidance and kept
\* a remainder in stash.
C6_Witness ==
    /\ last.op = "on_acked"
    /\ last.path = "avoidance"
    /\ ~aborted
    /\ cc.stash > 0
    /\ cc.cwnd > cc.ssthresh

\* on_lost has returned from the restore of lines 84-89
Restored ==
    /\ last.op = "on_lost"
    /\ last.path = "restore"
    /\ ~aborted

C8_ExitTriggerBelowSsthresh ==
    ~(aborted /\ last.op = "on_acked" /\ last.fired)

\* a step in which enter_jumpstart has been called
EnterJumpstartStep == jumpstarts' = jumpstarts + 1

\* C9: a call of enter_jumpstart either leaves every field as it was, or it
\* sets enter_pn to next_pn and the pacer to the x1 encoding and leaves a
\* window of more than twice the old one.  The guard compares the 32-bit
\* product cwnd * 2, which wraps for a window with the top bit set, so the
\* statement fails: a jumpstart takes effect that lowers the window.
C9_JumpstartMoreThanDoubles ==
    [][EnterJumpstartStep =>
          \/ cc' = cc
          \/ /\ cc'.cwnd > 2 * cc.cwnd
             /\ cc' = [cc EXCEPT !.cwnd = cc'.cwnd,
                                 !.enter_pn = next_pn,
                                 !.pacer_multiplier = PACER_X1]]_vars

\* C10: on_switch on an instance that is already Reno returns 1 and changes
\* no field, in every reachable state; so does any number of such calls.
C10_SwitchOnRenoChangesNothing ==
    cc.type = "reno" =>
        /\ reno_on_switch(cc) = <<1, cc>>
        /\ reno_on_switch(reno_on_switch(cc)[2]) = <<1, cc>>

\* C10 witness: on_switch has returned 1 on a Reno instance that has been
\* through a loss and has bytes in its stash.
C10_Witness ==
    /\ last.op = "on_switch"
    /\ last.path = "reno"
    /\ last.ret = 1
    /\ cc.type = "reno"
    /\ cc.num_loss_episodes > 0
    /\ cc.stash > 0

\* C11: on_switch on an instance whose variant is none of Reno, Pico and
\* Cubic returns 0 and leaves every field, the variant tag included, as it
\* was; on an instance of one of the three it returns 1.
C11_SwitchFromUnknownFails ==
    LET r == reno_on_switch(cc)
    IN  IF cc.type \in {"reno", "pico", "cubic"}
        THEN r[1] = 1
        ELSE r = <<0, cc>>

\* C11 witness: on_switch has returned 0 on an instance of another variant,
\* which still carries that variant's tag.
C11_Witness ==
    /\ last.op = "on_switch"
    /\ last.path = "other"
    /\ last.ret = 0
    /\ cc.type = "other"

\* C12: the initial window is max(max_packets, QUICLY_MIN_CWND) *
\* min(max_udp_payload_size, mtu_max), and a configuration that is no smaller
\* in both arguments gets no smaller a window.  The product of line 186 is a
\* uint32_t and wraps for a large max_packets, so the statement fails.
C12_InitialWindowIsProductAndMonotonic ==
    [][/\ cc'.cwnd = Max(initcwnd_packets', QUICLY_MIN_CWND)
                        * (IF max_udp_payload_size' > mtu_max THEN mtu_max
                                                               ELSE max_udp_payload_size')
       /\ (initcwnd_packets' >= initcwnd_packets
              /\ max_udp_payload_size' >= max_udp_payload_size)
             => cc'.cwnd >= cc.cwnd]_vars

\* What the code does in the case of C12: the window is that product modulo
\* 2^32; it is the product itself, and monotonic, among the configurations
\* whose product does not exceed UINT32_MAX; and a max_packets below
\* QUICLY_MIN_CWND gets the window of QUICLY_MIN_CWND.
C12_InitialWindowIsProductModulo ==
    LET product(p, m) == Max(p, QUICLY_MIN_CWND) * (IF m > mtu_max THEN mtu_max ELSE m)
    IN  /\ cc.cwnd = product(initcwnd_packets, max_udp_payload_size) % (UINT32_MAX + 1)
        /\ initcwnd_packets < QUICLY_MIN_CWND =>
              cc.cwnd = quicly_cc_calc_initial_cwnd(QUICLY_MIN_CWND, max_udp_payload_size)
        /\ \A p \in 0 .. initcwnd_packets, m \in {x \in CalcMtuChoices : x <= max_udp_payload_size} :
              product(initcwnd_packets, max_udp_payload_size) <= UINT32_MAX =>
                  quicly_cc_calc_initial_cwnd(p, m) <= cc.cwnd

\* C13: on a Reno instance cwnd_exiting_slow_start is zero exactly while
\* ssthresh is still UINT32_MAX, and once set no call changes it.  A first
\* loss that takes the jumpstart restore with bytes_acked = 0 records the
\* restored window, which is 0, so the field is still zero after slow start
\* has been left and a later loss sets it: the statement fails.
C13_ExitingSlowStartSetOnce ==
    [][(cc.type = "reno" /\ cc'.type = "reno") =>
          /\ cc'.cwnd_exiting_slow_start = 0 <=> cc'.ssthresh = UINT32_MAX
          /\ cc.cwnd_exiting_slow_start # 0 =>
                cc'.cwnd_exiting_slow_start = cc.cwnd_exiting_slow_start]_vars

\* What the code does in the case of C13: the field is zero while ssthresh is
\* UINT32_MAX, a value once set is never changed, and only a call of on_lost
\* that opens an episode sets it.
C13_ExitingSlowStartKept ==
    [][(cc.type = "reno" /\ cc'.type = "reno") =>
          /\ cc'.ssthresh = UINT32_MAX => cc'.cwnd_exiting_slow_start = 0
          /\ cc.cwnd_exiting_slow_start # 0 =>
                cc'.cwnd_exiting_slow_start = cc.cwnd_exiting_slow_start
          /\ cc'.cwnd_exiting_slow_start # cc.cwnd_exiting_slow_start =>
                LostStep /\ ReportedPn >= cc.recovery_end]_vars

\* C14: while the instance is a Reno instance, no step raises cwnd_minimum,
\* lowers cwnd_maximum, changes cwnd_initial or lowers num_loss_episodes.
C14_StatisticsMonotonic ==
    [][(cc.type = "reno" /\ cc'.type = "reno") =>
          /\ cc'.cwnd_minimum <= cc.cwnd_minimum
          /\ cc'.cwnd_maximum >= cc.cwnd_maximum
          /\ cc'.cwnd_initial = cc.cwnd_initial
          /\ cc'.num_loss_episodes >= cc.num_loss_episodes]_vars

\* C14 witness: after two loss episodes with growth between them, the
\* minimum is the window the first loss left, below the one the second left,
\* and the maximum is above the initial window.
C14_Witness ==
    /\ cc.type = "reno"
    /\ cc.num_loss_episodes = 2
    /\ cc.cwnd_minimum < cc.cwnd
    /\ cc.cwnd_maximum > cc.cwnd_initial
    /\ last.op = "on_lost"

\* C15: a call of on_acked for a packet sent before recovery_end leaves
\* every field as it was when the packet is at or after jumpstart.exit_pn,
\* and otherwise only adds bytes to cwnd (a uint32_t sum).
C15_AckedInRecoveryOnlyCredits ==
    [][(AckedStep /\ ReportedPn < cc.recovery_end) =>
          IF ReportedPn >= cc.exit_pn
          THEN cc' = cc
          ELSE cc' = [cc EXCEPT !.cwnd = (cc.cwnd + last'.bytes) % (UINT32_MAX + 1)]]_vars

\* C15 witness: on_acked has credited the bytes of a jumpstart packet
\* acknowledged in recovery, which lifts cwnd above ssthresh.
C15_Witness ==
    /\ last.op = "on_acked"
    /\ last.path = "recovery_credit"
    /\ ~aborted
    /\ cc.cwnd = cc.ssthresh + last.bytes
    /\ cc.cwnd_maximum >= cc.cwnd

\* a step of on_acked, run to its end, that fires the jumpstart exit trigger
ExitTriggerStep ==
    /\ AckedStep
    /\ ReportedPn >= cc.recovery_end
    /\ JumpstartExitTrigger(cc, ReportedPn)

\* the inflight arguments with which the step's on_acked gives cc'
StepInflight ==
    {inflight \in InflightChoices(last'.bytes, cc.cwnd) :
        /\ inflight >= last'.bytes
        /\ cc' = reno_on_acked(cc, last'.bytes, ReportedPn, inflight, next_pn,
                               max_udp_payload_size)}

\* C16: the call of on_acked that fires the exit trigger sets exit_pn to
\* next_pn and the pacer to the x2 encoding and leaves cwnd = inflight +
\* bytes; every other call of on_acked or on_lost leaves exit_pn alone, and
\* none returns the pacer to the x1 encoding, so that the trigger fires at most
\* once for one enter_jumpstart.  The window adopted from inflight is not
\* always below ssthresh and the sum of line 55 is a uint32_t, so the
\* statement about cwnd fails.
C16_ExitTriggerFiresOnce ==
    [][/\ ExitTriggerStep =>
             /\ cc'.exit_pn = next_pn
             /\ cc'.pacer_multiplier = PACER_X2
             /\ \E inflight \in StepInflight : cc'.cwnd = inflight + last'.bytes
       /\ ((AckedStep \/ LostStep) /\ ~ExitTriggerStep) => cc'.exit_pn = cc.exit_pn
       /\ ((AckedStep \/ LostStep) /\ cc.pacer_multiplier # PACER_X1) =>
             cc'.pacer_multiplier # PACER_X1]_vars

\* what holds of C16: the same, with cwnd = inflight + bytes only for a call
\* that adopts a window below ssthresh and whose sum fits a uint32_t.
C16_ExitTriggerFiresOnceInSlowStart ==
    [][/\ ExitTriggerStep =>
             /\ last'.fired
             /\ cc'.exit_pn = next_pn
             /\ cc'.pacer_multiplier = PACER_X2
             /\ StepInflight # {}
             /\ \A inflight \in StepInflight :
                    (inflight < cc.ssthresh /\ inflight + last'.bytes <= UINT32_MAX)
                       => cc'.cwnd = inflight + last'.bytes
       /\ ((AckedStep \/ LostStep) /\ ~ExitTriggerStep) =>
             ~last'.fired /\ cc'.exit_pn = cc.exit_pn
       /\ ((AckedStep \/ LostStep) /\ cc.pacer_multiplier # PACER_X1) =>
             cc'.pacer_multiplier # PACER_X1]_vars

\* C16, the case of the failure: the exit trigger has fired in a call that
\* adopted a window at or above ssthresh and took the congestion-avoidance
\* branch.
C16_TriggerInAvoidance ==
    last.op = "on_acked" /\ last.fired /\ last.path = "avoidance" /\ ~aborted

\* a step of on_acked, run to its end, for a packet sent outside recovery
AckedOutsideRecoveryStep == AckedStep /\ ReportedPn >= cc.recovery_end

\* C17: jumpstart.bytes_acked is the sum of the bytes of the calls of on_acked
\* outside recovery whose packet lies in [enter_pn, exit_pn), exit_pn being
\* the boundary the exit trigger sets: each such call adds its bytes, the
\* call that fires the trigger included, and no other call of on_acked or
\* on_lost changes bytes_acked.  Line 42 tests the interval before line 49
\* sets exit_pn, so the call that fires the trigger adds nothing and the
\* statement fails.
C17_BytesAckedSumsInterval ==
    [][/\ AckedOutsideRecoveryStep =>
             cc'.bytes_acked = cc.bytes_acked +
                (IF cc.enter_pn <= ReportedPn /\ ReportedPn < cc'.exit_pn
                 THEN last'.bytes ELSE 0)
       /\ ((AckedStep \/ LostStep) /\ ~AckedOutsideRecoveryStep) =>
             cc'.bytes_acked = cc.bytes_acked]_vars

\* what holds of C17: a call adds its bytes when its packet lies in the
\* interval as it is before the call, so that the call that fires the
\* trigger for a first jumpstart (exit_pn = 0) adds nothing.
C17_BytesAckedSumsIntervalBeforeCall ==
    [][/\ AckedOutsideRecoveryStep =>
             cc'.bytes_acked = cc.bytes_acked +
                (IF cc.enter_pn <= ReportedPn /\ ReportedPn < cc.exit_pn
                 THEN last'.bytes ELSE 0)
       /\ (ExitTriggerStep /\ cc.exit_pn = 0) => cc'.bytes_acked = cc.bytes_acked
       /\ ((AckedStep \/ LostStep) /\ ~AckedOutsideRecoveryStep) =>
             cc'.bytes_acked = cc.bytes_acked]_vars

\* C18: on_switch on a cubic instance returns 1; with cwnd_exiting_slow_start
\* = 0 it changes the variant tag and nothing else, and otherwise it leaves
\* the instance as init with the previous cwnd_initial leaves it: cwnd =
\* cwnd_initial = cwnd_maximum, ssthresh = cwnd_minimum = UINT32_MAX, the
\* pacer at x2, enter_pn = UINT64_MAX and every other field zero.
C18_SwitchFromCubic ==
    cc.type = "cubic" =>
        LET r == reno_on_switch(cc)
            n == r[2]
        IN  /\ r[1] = 1
            /\ n.type = "reno"
            /\ IF cc.cwnd_exiting_slow_start = 0
               THEN n = [cc EXCEPT !.type = "reno"]
               ELSE /\ n = reno_init(cc.cwnd_initial)
                    /\ n.cwnd = cc.cwnd_initial
                    /\ n.cwnd_initial = cc.cwnd_initial
                    /\ n.cwnd_maximum = cc.cwnd_initial
                    /\ n.ssthresh = UINT32_MAX
                    /\ n.cwnd_minimum = UINT32_MAX
                    /\ n.pacer_multiplier = PACER_X2
                    /\ n.enter_pn = UINT64_MAX
                    /\ n.recovery_end = 0
                    /\ n.num_loss_episodes = 0
                    /\ n.cwnd_exiting_slow_start = 0
                    /\ n.stash = 0
                    /\ n.exit_pn = 0
                    /\ n.bytes_acked = 0

\* C18 witness: on_switch has reset a cubic instance that had left slow
\* start; the cubic instance still in slow start has a grown window, so the
\* state of a fresh instance is that of the reset.
C18_Witness ==
    /\ last.op = "on_switch"
    /\ last.path = "cubic"
    /\ last.ret = 1
    /\ cc = reno_init(cc.cwnd_initial)

\* C18, the other case: on_switch has taken over a cubic instance still in
\* slow start, with the window that cubic had grown.
C18_RetagWitness ==
    /\ last.op = "on_switch"
    /\ last.path = "cubic"
    /\ last.ret = 1
    /\ cc.type = "reno"
    /\ cc.cwnd > cc.cwnd_initial
    /\ cc.cwnd_exiting_slow_start = 0

\* C19: in every reachable state cwnd_maximum >= cwnd, so that cwnd_maximum
\* is the running maximum of cwnd.  enter_jumpstart (line 124), the credit
\* in recovery (line 37) and the exit trigger (line 48) set cwnd without
\* raising cwnd_maximum, so the statement fails.
C19_CwndMaximumAtLeastCwnd ==
    cc.type = "reno" => cc.cwnd_maximum >= cc.cwnd

\* what holds of C19: cwnd_maximum >= cwnd as long as no jumpstart has
\* taken effect.
C19_CwndMaximumAtLeastCwndWithoutJumpstart ==
    (cc.type = "reno" /\ cc.enter_pn = UINT64_MAX) => cc.cwnd_maximum >= cc.cwnd

\* C19, a case of the failure: the credit in recovery has left cwnd above
\* cwnd_maximum.
C19_CreditAboveMaximum ==
    /\ last.op = "on_acked"
    /\ last.path = "recovery_credit"
    /\ ~aborted
    /\ cc.cwnd > cc.cwnd_maximum

\* a step of on_lost, run to its end, that opens an episode with a packet of
\* a jumpstart whose exit trigger has not fired (exit_pn still 0)
LossBeforeExitTriggerStep ==
    /\ LostStep
    /\ cc.pacer_multiplier = PACER_X1
    /\ cc.exit_pn = 0
    /\ ReportedPn >= cc.enter_pn
    /\ ReportedPn >= cc.recovery_end

\* a step that is not a call of enter_jumpstart that took effect
NoJumpstartStep == ~(EnterJumpstartStep /\ cc' # cc)

\* the state in which such a loss leaves the jumpstart
JumpstartLost ==
    cc.type = "reno" /\ cc.pacer_multiplier = PACER_X1_2 /\ cc.exit_pn = 0

====
